---- MODULE Spec2Model ----
(***************************************************************************)
(* Model of components/server/dns.go: the embedded DNS server's lifecycle  *)
(* (NewDNSServer, Start, Stop), the record registrar (addRecord, rmRecord, *)
(* invertDomain) and the restart loop (until).                             *)
(*                                                                         *)
(* Strings are sequences of tokens: a token is either a separator ("."     *)
(* "/" ":") or a maximal run of other characters, so strings.Split,        *)
(* strings.Replace and strings.TrimSuffix on separators are computed as    *)
(* the library computes them.                                              *)
(***************************************************************************)
EXTENDS Integers, Sequences, FiniteSets, TLC

\* ------------------------------------------------------------------ bounds
\* goroutines that call Start and Stop concurrently
NCallers == 2

\* tokens in an argument of invertDomain
MaxNameLen == 5

\* NewDNSServer calls that get past address resolution (each allocates one
\* DNSServer object).
MaxHandles == 2

\* ------------------------------------------------------- program constants
LocalDomainName == <<"coreos", ".", "local">>

\* "TTL": 20 in the record value written by addRecord
RecordTTL == 20

\* the two bootstrap host names NewDNSServer registers
BootHost == <<"corectld">>
BootAlias == <<"corectld", ".", "ns", ".", "dns">>

\* ------------------------------------------------------------ environment
nil == "nil"

\* error values the etcd client can return
StoreErrs == {"errA", "errB"}
StoreResults == {nil} \cup StoreErrs

\* outcomes of skydns' Run()
RunResults == {nil, "runErr"}

\* values session.Caller.Network.Address can have
Addresses == {<<"10", ".", "0", ".", "2", ".", "2">>,
              <<"192", ".", "168", ".", "64", ".", "1">>}

\* arguments collaborators pass to addRecord / rmRecord
HostNames == {BootHost, <<"vm1">>}
IPs == Addresses

\* serverAddress arguments of NewDNSServer: a host:port and one without port
ServerAddresses == {<<"127.0.0.1", ":", "5354">>, <<"127.0.0.1">>}

\* ---------------------------------------------------------------- strings
\* strings.Split(s, sep) for a one-token separator
RECURSIVE Split(_, _)
Split(s, sep) ==
    IF \A i \in 1..Len(s) : s[i] # sep
    THEN <<s>>
    ELSE LET i == CHOOSE k \in 1..Len(s) :
                      s[k] = sep /\ \A j \in 1..(k - 1) : s[j] # sep
         IN  <<SubSeq(s, 1, i - 1)>> \o Split(SubSeq(s, i + 1, Len(s)), sep)

\* strings.Replace(s, old, new, -1) for one-token old and new
Replace(s, old, new) ==
    [i \in 1..Len(s) |-> IF s[i] = old THEN new ELSE s[i]]

\* strings.TrimSuffix(s, suffix) for a one-token suffix
TrimSuffix(s, suffix) ==
    IF Len(s) >= 1 /\ s[Len(s)] = suffix THEN SubSeq(s, 1, Len(s) - 1) ELSE s

\* fmt.Sprintf("%s.%s", a, b)
SprintfDot(a, b) == a \o <<".">> \o b

\* the loop of invertDomain: for x := len(s)-1; x >= 0; x-- { out += s[x]+"/" }
\* (s is indexed from 1 here)
RECURSIVE invertLoop(_, _, _)
invertLoop(s, x, out) ==
    IF x < 1 THEN out ELSE invertLoop(s, x - 1, out \o s[x] \o <<"/">>)

\* invertDomain that leaves the trailing "/" in place
invertDomain_NoTrim(in) ==
    LET s == Split(in, ".")
    IN  invertLoop(s, Len(s), <<>>)

invertDomain(in) ==
    LET s == Split(in, ".")
    IN  TrimSuffix(invertLoop(s, Len(s), <<>>), "/")

\* fqdn := fmt.Sprintf("%s.%s", hostName, LocalDomainName)
Fqdn(hostName) == SprintfDot(hostName, LocalDomainName)

\* path := fmt.Sprintf("/skydns/%s", strings.Replace(invertDomain(fqdn), ".", "/", -1))
ForwardPath(fqdn) ==
    <<"/", "skydns", "/">> \o Replace(invertDomain(fqdn), ".", "/")

\* the reverse key with the octets of ip in inverted order
ReversePath_Inverted(ip) ==
    <<"/", "skydns", "/", "arpa", "/", "in-addr", "/">> \o invertDomain(ip)

\* "/skydns/arpa/in-addr/" + strings.Replace(ip, ".", "/", -1)
ReversePath(ip) ==
    <<"/", "skydns", "/", "arpa", "/", "in-addr", "/">> \o Replace(ip, ".", "/")

\* "{\"host\":\"" + host + "\", \"TTL\": 20 }"
RecordValue(host) == [host |-> host, TTL |-> RecordTTL]

\* net.ResolveUDPAddr("udp", serverAddress): nil error iff host:port
ResolveUDPAddr(serverAddress) ==
    IF Len(Split(serverAddress, ":")) = 2 THEN nil ELSE "missing port in address"

\* ------------------------------------------------------------------ state
VARIABLES
    store,      \* the etcd key space: a function from the keys present to values
    address,    \* session.Caller.Network.Address
    handles,    \* the DNSServer objects allocated so far; .done is 0 (nil) or a channel
    DNSServer,  \* Daemon.DNSServer: 0 (nil) or an index into handles
    chans,      \* the channels made so far: "open" or "closed"
    runners,    \* the goroutines running until(): their done channel and position
    stderr,     \* os.Stderr: the line written to it last
    panic,      \* "none", or the runtime panic that ended the process
    last,       \* the most recent call: its name, arguments, effects in order, result
    callers,    \* the goroutines calling Start / Stop step by step: where each is
    enc         \* the most recent invertDomain call: its argument and result

vars == <<store, address, handles, DNSServer, chans, runners, stderr, panic, last,
          callers, enc>>

\* an effect of a call, in the order the code performs them
Event(op, key, err) == [op |-> op, key |-> key, err |-> err]

\* the record of a call (hostName and ip are the record it registers or
\* removes, empty when it touches none); after is the name of the call made directly before it
\* when that one had the same hostName and ip and returned nil, else "none"
Call(op, h, hostName, ip, trace, err) ==
    [op |-> op, h |-> h, hostName |-> hostName, ip |-> ip, trace |-> trace,
     err |-> err,
     after |-> IF last.hostName = hostName /\ last.ip = ip /\ last.err = nil
               THEN last.op ELSE "none"]

\* etcd Set / Delete on the key space (a failed call changes nothing)
SetKey(st, key, val) ==
    [k \in (DOMAIN st) \cup {key} |-> IF k = key THEN val ELSE st[k]]

DeleteKey(st, key) == [k \in (DOMAIN st) \ {key} |-> st[k]]

\* ------------------------------------------------------------- registrar
\* addRecord that goes on to the reverse Set after the forward Set failed
addRecord_NoFailFast(st, hostName, ip, r1, r2) ==
    LET fqdn == Fqdn(hostName)
        path == ForwardPath(fqdn)
        st1  == IF r1 = nil THEN SetKey(st, path, RecordValue(ip)) ELSE st
        rev  == ReversePath(ip)
        st2  == IF r2 = nil THEN SetKey(st1, rev, RecordValue(fqdn)) ELSE st1
    IN  [store |-> st2,
         trace |-> <<Event("Set", path, r1), Event("Set", rev, r2)>>,
         err   |-> r2]

\* addRecord on key space st; r1, r2 are the results of the first and of the
\* second Set.  Yields the key space, the calls made and the returned error.
addRecord(st, hostName, ip, r1, r2) ==
    LET fqdn == Fqdn(hostName)
        path == ForwardPath(fqdn)
        st1  == IF r1 = nil THEN SetKey(st, path, RecordValue(ip)) ELSE st
        rev  == ReversePath(ip)
        st2  == IF r2 = nil THEN SetKey(st1, rev, RecordValue(fqdn)) ELSE st1
    IN  IF r1 # nil
        THEN [store |-> st1, trace |-> <<Event("Set", path, r1)>>, err |-> r1]
        ELSE [store |-> st2,
              trace |-> <<Event("Set", path, r1), Event("Set", rev, r2)>>,
              err   |-> r2]

\* rmRecord that goes on to the reverse Delete after the forward Delete failed
rmRecord_NoFailFast(st, hostName, ip, r1, r2) ==
    LET fqdn == Fqdn(hostName)
        path == ForwardPath(fqdn)
        st1  == IF r1 = nil THEN DeleteKey(st, path) ELSE st
        rev  == ReversePath(ip)
        st2  == IF r2 = nil THEN DeleteKey(st1, rev) ELSE st1
    IN  [store |-> st2,
         trace |-> <<Event("Delete", path, r1), Event("Delete", rev, r2)>>,
         err   |-> r2]

\* rmRecord that builds the forward key without inverting the name
rmRecord_NotInverted(st, hostName, ip, r1, r2) ==
    LET fqdn == Fqdn(hostName)
        path == <<"/", "skydns", "/">> \o Replace(fqdn, ".", "/")
        st1  == IF r1 = nil THEN DeleteKey(st, path) ELSE st
        rev  == ReversePath(ip)
        st2  == IF r2 = nil THEN DeleteKey(st1, rev) ELSE st1
    IN  IF r1 # nil
        THEN [store |-> st1, trace |-> <<Event("Delete", path, r1)>>, err |-> r1]
        ELSE [store |-> st2,
              trace |-> <<Event("Delete", path, r1), Event("Delete", rev, r2)>>,
              err   |-> r2]

\* rmRecord, likewise, with the results of the two Deletes
rmRecord(st, hostName, ip, r1, r2) ==
    LET fqdn == Fqdn(hostName)
        path == ForwardPath(fqdn)
        st1  == IF r1 = nil THEN DeleteKey(st, path) ELSE st
        rev  == ReversePath(ip)
        st2  == IF r2 = nil THEN DeleteKey(st1, rev) ELSE st1
    IN  IF r1 # nil
        THEN [store |-> st1, trace |-> <<Event("Delete", path, r1)>>, err |-> r1]
        ELSE [store |-> st2,
              trace |-> <<Event("Delete", path, r1), Event("Delete", rev, r2)>>,
              err   |-> r2]

\* teardownService removing both bootstrap names
teardownService_Both(st, r1, r2) ==
    LET r == rmRecord(st, BootHost, address, r1, r2)
        q == rmRecord(r.store, BootAlias, address, r1, r2)
    IN  [store |-> q.store, trace |-> r.trace]

\* teardownService removing the alias in place of the host name
teardownService_Alias(st, r1, r2) ==
    LET r == rmRecord(st, BootAlias, address, r1, r2)
    IN  [store |-> r.store, trace |-> r.trace]

\* teardownService: rmRecord("corectld", address), its error dropped
teardownService(st, r1, r2) ==
    LET r == rmRecord(st, BootHost, address, r1, r2)
    IN  [store |-> r.store, trace |-> r.trace]

\* ------------------------------------------------------------- lifecycle
\* Start that treats a closed done channel like a nil one and starts again
startBody_RestartClosed(hs, cs, rs, h) ==
    IF hs[h].done # 0 /\ cs[hs[h].done] = "open"
    THEN [handles |-> hs, chans |-> cs, runners |-> rs,
          stderr |-> "DNS server already started",
          trace |-> <<Event("warn", <<>>, nil)>>]
    ELSE LET c == Len(cs) + 1
         IN  [handles |-> [hs EXCEPT ![h].done = c],
              chans   |-> Append(cs, "open"),
              runners |-> Append(rs, [done |-> c, pc |-> "select"]),
              stderr  |-> stderr,
              trace   |-> <<Event("go", <<>>, nil)>>]

\* the body of DNSServer.Start on handle h of hs: the handles, channels and
\* goroutines after it, and what it did
startBody(hs, cs, rs, h) ==
    IF hs[h].done # 0
    THEN [handles |-> hs, chans |-> cs, runners |-> rs,
          stderr |-> "DNS server already started",
          trace |-> <<Event("warn", <<>>, nil)>>]
    ELSE LET c == Len(cs) + 1
         IN  [handles |-> [hs EXCEPT ![h].done = c],
              chans   |-> Append(cs, "open"),
              runners |-> Append(rs, [done |-> c, pc |-> "select"]),
              stderr  |-> stderr,
              trace   |-> <<Event("go", <<>>, nil)>>]

Init ==
    /\ store = << >>
    /\ address \in Addresses
    /\ handles = << >>
    /\ DNSServer = 0
    /\ chans = << >>
    /\ runners = << >>
    /\ stderr = "none"
    /\ panic = "none"
    /\ last = [op |-> "none", h |-> 0, hostName |-> <<>>, ip |-> <<>>,
               trace |-> <<>>, err |-> nil, after |-> "none"]
    /\ callers = [c \in 1..NCallers |-> "idle"]
    /\ enc = [called |-> FALSE, in |-> << >>, out |-> << >>]

\* a collaborator in the package registers a record
Register(hostName, ip, r1, r2) ==
    /\ panic = "none"
    /\ LET r == addRecord(store, hostName, ip, r1, r2)
       IN  /\ store' = r.store
           /\ last' = Call("addRecord", DNSServer, hostName, ip, r.trace, r.err)
    /\ UNCHANGED <<address, handles, DNSServer, chans, runners, stderr, panic>>
    /\ UNCHANGED <<callers, enc>>

\* a collaborator in the package removes a record
Unregister(hostName, ip, r1, r2) ==
    /\ panic = "none"
    /\ LET r == rmRecord(store, hostName, ip, r1, r2)
       IN  /\ store' = r.store
           /\ last' = Call("rmRecord", DNSServer, hostName, ip, r.trace, r.err)
    /\ UNCHANGED <<address, handles, DNSServer, chans, runners, stderr, panic>>
    /\ UNCHANGED <<callers, enc>>

\* NewDNSServer that allocates the DNSServer before it resolves the address
NewDNSServer_AllocFirst(serverAddress, r1, r2, r3, r4) ==
    /\ panic = "none"
    /\ Len(handles) < MaxHandles
    /\ LET rerr == ResolveUDPAddr(serverAddress)
           hs0  == Append(handles, [done |-> 0, dnsServerAddr |-> serverAddress])
           h    == Len(hs0)
           a1   == addRecord(store, BootHost, address, r1, r2)
           a2   == addRecord(a1.store, BootAlias, address, r3, r4)
           s    == startBody(hs0, chans, runners, h)
       IN  IF rerr # nil
           THEN /\ handles' = hs0
                /\ DNSServer' = h
                /\ last' = Call("NewDNSServer", h, <<>>, <<>>, <<>>, rerr)
                /\ UNCHANGED <<store, chans, runners, stderr>>
           ELSE IF a1.err # nil
           THEN /\ store' = a1.store
                /\ handles' = hs0
                /\ DNSServer' = h
                /\ last' = Call("NewDNSServer", h, BootHost, address, a1.trace, a1.err)
                /\ UNCHANGED <<chans, runners, stderr>>
           ELSE IF a2.err # nil
           THEN /\ store' = a2.store
                /\ handles' = hs0
                /\ DNSServer' = h
                /\ last' = Call("NewDNSServer", h, BootHost, address,
                                a1.trace \o a2.trace, a2.err)
                /\ UNCHANGED <<chans, runners, stderr>>
           ELSE /\ store' = a2.store
                /\ handles' = s.handles
                /\ DNSServer' = h
                /\ chans' = s.chans
                /\ runners' = s.runners
                /\ stderr' = s.stderr
                /\ last' = Call("NewDNSServer", h, BootHost, address,
                                a1.trace \o a2.trace \o s.trace, nil)
    /\ UNCHANGED <<address, panic>>
    /\ UNCHANGED <<callers, enc>>

\* NewDNSServer that undoes its writes and keeps the old DNSServer when a
\* bootstrap registration fails
NewDNSServer_Rollback(serverAddress, r1, r2, r3, r4) ==
    /\ panic = "none"
    /\ Len(handles) < MaxHandles
    /\ LET rerr == ResolveUDPAddr(serverAddress)
           hs0  == Append(handles, [done |-> 0, dnsServerAddr |-> serverAddress])
           h    == Len(hs0)
           a1   == addRecord(store, BootHost, address, r1, r2)
           a2   == addRecord(a1.store, BootAlias, address, r3, r4)
           s    == startBody(hs0, chans, runners, h)
       IN  IF rerr # nil
           THEN /\ last' = Call("NewDNSServer", DNSServer, <<>>, <<>>, <<>>, rerr)
                /\ UNCHANGED <<store, handles, DNSServer, chans, runners, stderr>>
           ELSE IF a1.err # nil
           THEN /\ last' = Call("NewDNSServer", DNSServer, BootHost, address,
                                a1.trace, a1.err)
                /\ UNCHANGED <<store, handles, DNSServer, chans, runners, stderr>>
           ELSE IF a2.err # nil
           THEN /\ last' = Call("NewDNSServer", DNSServer, BootHost, address,
                                a1.trace \o a2.trace, a2.err)
                /\ UNCHANGED <<store, handles, DNSServer, chans, runners, stderr>>
           ELSE /\ store' = a2.store
                /\ handles' = s.handles
                /\ DNSServer' = h
                /\ chans' = s.chans
                /\ runners' = s.runners
                /\ stderr' = s.stderr
                /\ last' = Call("NewDNSServer", h, BootHost, address,
                                a1.trace \o a2.trace \o s.trace, nil)
    /\ UNCHANGED <<address, panic>>
    /\ UNCHANGED <<callers, enc>>

\* NewDNSServer that does not check the error of the second addRecord
NewDNSServer_AliasErrDropped(serverAddress, r1, r2, r3, r4) ==
    /\ panic = "none"
    /\ Len(handles) < MaxHandles
    /\ LET rerr == ResolveUDPAddr(serverAddress)
           hs0  == Append(handles, [done |-> 0, dnsServerAddr |-> serverAddress])
           h    == Len(hs0)
           a1   == addRecord(store, BootHost, address, r1, r2)
           a2   == addRecord(a1.store, BootAlias, address, r3, r4)
           s    == startBody(hs0, chans, runners, h)
       IN  IF rerr # nil
           THEN /\ last' = Call("NewDNSServer", DNSServer, <<>>, <<>>, <<>>, rerr)
                /\ UNCHANGED <<store, handles, DNSServer, chans, runners, stderr>>
           ELSE IF a1.err # nil
           THEN /\ store' = a1.store
                /\ handles' = hs0
                /\ DNSServer' = h
                /\ last' = Call("NewDNSServer", h, BootHost, address, a1.trace, a1.err)
                /\ UNCHANGED <<chans, runners, stderr>>
           ELSE /\ store' = a2.store
                /\ handles' = s.handles
                /\ DNSServer' = h
                /\ chans' = s.chans
                /\ runners' = s.runners
                /\ stderr' = s.stderr
                /\ last' = Call("NewDNSServer", h, BootHost, address,
                                a1.trace \o a2.trace \o s.trace, a2.err)
    /\ UNCHANGED <<address, panic>>
    /\ UNCHANGED <<callers, enc>>

\* ServerContext.NewDNSServer(root, serverAddress, ns) on the Daemon; r1..r4
\* are the results of the Sets of the two addRecord calls
NewDNSServer(serverAddress, r1, r2, r3, r4) ==
    /\ panic = "none"
    /\ Len(handles) < MaxHandles
    /\ LET rerr == ResolveUDPAddr(serverAddress)
           hs0  == Append(handles, [done |-> 0, dnsServerAddr |-> serverAddress])
           h    == Len(hs0)
           a1   == addRecord(store, BootHost, address, r1, r2)
           a2   == addRecord(a1.store, BootAlias, address, r3, r4)
           s    == startBody(hs0, chans, runners, h)
       IN  IF rerr # nil
           THEN /\ last' = Call("NewDNSServer", DNSServer, <<>>, <<>>, <<>>, rerr)
                /\ UNCHANGED <<store, handles, DNSServer, chans, runners, stderr>>
           ELSE IF a1.err # nil
           THEN /\ store' = a1.store
                /\ handles' = hs0
                /\ DNSServer' = h
                /\ last' = Call("NewDNSServer", h, BootHost, address, a1.trace, a1.err)
                /\ UNCHANGED <<chans, runners, stderr>>
           ELSE IF a2.err # nil
           THEN /\ store' = a2.store
                /\ handles' = hs0
                /\ DNSServer' = h
                /\ last' = Call("NewDNSServer", h, BootHost, address,
                                a1.trace \o a2.trace, a2.err)
                /\ UNCHANGED <<chans, runners, stderr>>
           ELSE /\ store' = a2.store
                /\ handles' = s.handles
                /\ DNSServer' = h
                /\ chans' = s.chans
                /\ runners' = s.runners
                /\ stderr' = s.stderr
                /\ last' = Call("NewDNSServer", h, BootHost, address,
                                a1.trace \o a2.trace \o s.trace, nil)
    /\ UNCHANGED <<address, panic>>
    /\ UNCHANGED <<callers, enc>>

\* DNSServer.Start on handle h (0 is the nil pointer Daemon.DNSServer holds
\* before the first NewDNSServer)
Start(h) ==
    /\ panic = "none"
    /\ IF h = 0
       THEN /\ panic' = "nil pointer dereference"
            /\ last' = Call("Start", h, <<>>, <<>>, <<>>, nil)
            /\ UNCHANGED <<handles, chans, runners, stderr>>
       ELSE LET s == startBody(handles, chans, runners, h)
            IN  /\ handles' = s.handles
                /\ chans' = s.chans
                /\ runners' = s.runners
                /\ stderr' = s.stderr
                /\ last' = Call("Start", h, <<>>, <<>>, s.trace, nil)
                /\ UNCHANGED panic
    /\ UNCHANGED <<store, address, DNSServer>>
    /\ UNCHANGED <<callers, enc>>

\* Stop that returns before close(dns.done) when the teardown failed
Stop_ReturnOnTeardownErr(h, r1, r2) ==
    /\ panic = "none"
    /\ h # 0
    /\ LET r == rmRecord(store, BootHost, address, r1, r2)
           c == handles[h].done
       IN  /\ store' = r.store
           /\ IF r.err # nil
              THEN /\ last' = Call("Stop", h, BootHost, address, r.trace, r.err)
                   /\ UNCHANGED <<chans, panic>>
              ELSE IF c = 0
              THEN /\ panic' = "close of nil channel"
                   /\ last' = Call("Stop", h, BootHost, address, r.trace, nil)
                   /\ UNCHANGED chans
              ELSE IF chans[c] = "closed"
              THEN /\ panic' = "close of closed channel"
                   /\ last' = Call("Stop", h, BootHost, address, r.trace, nil)
                   /\ UNCHANGED chans
              ELSE /\ chans' = [chans EXCEPT ![c] = "closed"]
                   /\ last' = Call("Stop", h, BootHost, address,
                                   r.trace \o <<Event("close", <<>>, nil)>>, nil)
                   /\ UNCHANGED panic
    /\ UNCHANGED <<address, handles, DNSServer, runners, stderr>>
    /\ UNCHANGED <<callers, enc>>

\* DNSServer.Stop on handle h; r1, r2 are the results of teardown's Deletes
Stop(h, r1, r2) ==
    /\ panic = "none"
    /\ LET t == teardownService(store, r1, r2)
           c == IF h = 0 THEN 0 ELSE handles[h].done
       IN  /\ store' = t.store
           /\ IF h = 0
              THEN /\ panic' = "nil pointer dereference"
                   /\ last' = Call("Stop", h, BootHost, address, t.trace, nil)
                   /\ UNCHANGED chans
              ELSE IF c = 0
              THEN /\ panic' = "close of nil channel"
                   /\ last' = Call("Stop", h, BootHost, address, t.trace, nil)
                   /\ UNCHANGED chans
              ELSE IF chans[c] = "closed"
              THEN /\ panic' = "close of closed channel"
                   /\ last' = Call("Stop", h, BootHost, address, t.trace, nil)
                   /\ UNCHANGED chans
              ELSE /\ chans' = [chans EXCEPT ![c] = "closed"]
                   /\ last' = Call("Stop", h, BootHost, address,
                                   t.trace \o <<Event("close", <<>>, nil)>>, nil)
                   /\ UNCHANGED panic
    /\ UNCHANGED <<address, handles, DNSServer, runners, stderr>>
    /\ UNCHANGED <<callers, enc>>

\* ---------------------------------------------------------------- until
\* a select that takes the default case whether or not done is closed
untilSelect_IgnoreDone(g) ==
    /\ panic = "none"
    /\ runners[g].pc = "select"
    /\ runners' = [runners EXCEPT ![g].pc = "fn"]
    /\ UNCHANGED <<store, address, handles, DNSServer, chans, stderr, panic, last>>
    /\ UNCHANGED <<callers, enc>>

\* the select of goroutine g: return when done is closed, else call fn
untilSelect(g) ==
    /\ panic = "none"
    /\ runners[g].pc = "select"
    /\ runners' = [runners EXCEPT ![g].pc =
                      IF chans[runners[g].done] = "closed" THEN "returned" ELSE "fn"]
    /\ UNCHANGED <<store, address, handles, DNSServer, chans, stderr, panic, last>>
    /\ UNCHANGED <<callers, enc>>

\* fn() returns exitErr, the outcome is written to w, the sleep begins
untilFn(g, exitErr) ==
    /\ panic = "none"
    /\ runners[g].pc = "fn"
    /\ runners' = [runners EXCEPT ![g].pc = "sleep"]
    /\ stderr' = IF exitErr = nil THEN "skydns: Exited with no errors."
                                  ELSE "skydns: Exit with error"
    /\ UNCHANGED <<store, address, handles, DNSServer, chans, panic, last>>
    /\ UNCHANGED <<callers, enc>>

\* a loop that calls fn again right after the sleep, with no select between
untilSleep_ThenFn(g) ==
    /\ panic = "none"
    /\ runners[g].pc = "sleep"
    /\ runners' = [runners EXCEPT ![g].pc = "fn"]
    /\ UNCHANGED <<store, address, handles, DNSServer, chans, stderr, panic, last>>
    /\ UNCHANGED <<callers, enc>>

\* time.Sleep(sleep) ends, the loop goes round
untilSleep(g) ==
    /\ panic = "none"
    /\ runners[g].pc = "sleep"
    /\ runners' = [runners EXCEPT ![g].pc = "select"]
    /\ UNCHANGED <<store, address, handles, DNSServer, chans, stderr, panic, last>>
    /\ UNCHANGED <<callers, enc>>

\* ------------------------------------------------- concurrent callers
\* Start and Stop take no lock, so calls made by several goroutines on
\* Daemon.DNSServer interleave statement by statement: callers[c] is the
\* statement caller c is about to execute, "idle" between calls.

\* caller c enters Start and tests dns.done != nil
StartCheck(c) ==
    /\ panic = "none"
    /\ DNSServer # 0
    /\ callers[c] = "idle"
    /\ IF handles[DNSServer].done # 0
       THEN /\ stderr' = "DNS server already started"
            /\ UNCHANGED callers
       ELSE /\ callers' = [callers EXCEPT ![c] = "make"]
            /\ UNCHANGED stderr
    /\ UNCHANGED <<store, address, handles, DNSServer, chans, runners, panic,
                   last, enc>>

\* caller c executes dns.done = make(chan struct{})
StartMake(c) ==
    /\ panic = "none"
    /\ callers[c] = "make"
    /\ chans' = Append(chans, "open")
    /\ handles' = [handles EXCEPT ![DNSServer].done = Len(chans) + 1]
    /\ callers' = [callers EXCEPT ![c] = "go"]
    /\ UNCHANGED <<store, address, DNSServer, runners, stderr, panic, last, enc>>

\* caller c executes go until(..., dns.done): the go statement reads
\* dns.done again, whatever it holds by then
StartGo(c) ==
    /\ panic = "none"
    /\ callers[c] = "go"
    /\ runners' = Append(runners, [done |-> handles[DNSServer].done, pc |-> "select"])
    /\ callers' = [callers EXCEPT ![c] = "idle"]
    /\ UNCHANGED <<store, address, handles, DNSServer, chans, stderr, panic,
                   last, enc>>

\* caller c enters Stop and runs dns.teardownService()
StopTeardown(c, r1, r2) ==
    /\ panic = "none"
    /\ DNSServer # 0
    /\ callers[c] = "idle"
    /\ store' = teardownService(store, r1, r2).store
    /\ callers' = [callers EXCEPT ![c] = "close"]
    /\ UNCHANGED <<address, handles, DNSServer, chans, runners, stderr, panic,
                   last, enc>>

\* caller c executes close(dns.done)
StopClose(c) ==
    /\ panic = "none"
    /\ callers[c] = "close"
    /\ LET d == handles[DNSServer].done
       IN  IF d = 0
           THEN /\ panic' = "close of nil channel"
                /\ UNCHANGED chans
           ELSE IF chans[d] = "closed"
           THEN /\ panic' = "close of closed channel"
                /\ UNCHANGED chans
           ELSE /\ chans' = [chans EXCEPT ![d] = "closed"]
                /\ UNCHANGED panic
    /\ callers' = [callers EXCEPT ![c] = "idle"]
    /\ UNCHANGED <<store, address, handles, DNSServer, runners, stderr, last, enc>>

\* -------------------------------------------------------------- encoder
\* separators and label tokens an argument of invertDomain is made of
NameTokens == {"a", "b", "c", ".", "/"}
Separators == {".", "/"}

\* the names of at most MaxNameLen tokens: one or more labels, none empty,
\* with a "." between them (two label tokens in a row would be one token,
\* so they never follow each other)
Names ==
    UNION {{q \in [1..n -> NameTokens] :
               /\ q[1] # "." /\ q[n] # "."
               /\ \A i \in 1..(n - 1) :
                     /\ q[i] \in Separators \/ q[i + 1] \in Separators
                     /\ ~(q[i] = "." /\ q[i + 1] = ".")} :
           n \in 1..MaxNameLen}

\* a call of the encoder
invertDomainCall(in) == [called |-> TRUE, in |-> in, out |-> invertDomain(in)]

\* somebody calls invertDomain(name); the function keeps nothing between
\* calls, so one call is followed through
Encode(name) ==
    /\ ~enc.called
    /\ enc' = invertDomainCall(name)
    /\ UNCHANGED <<store, address, handles, DNSServer, chans, runners, stderr,
                   panic, last, callers>>

\* the handles a caller can hold: every DNSServer allocated, or the nil
\* Daemon.DNSServer before the first allocation
Callable == IF DNSServer = 0 THEN {0} ELSE 1..Len(handles)

\* the results of n store calls in a row: a call after a failed one is never
\* made, so its result is nil here
RECURSIVE ResultSeqs(_)
ResultSeqs(n) ==
    IF n = 0 THEN {<< >>}
    ELSE {<<nil>> \o t : t \in ResultSeqs(n - 1)}
         \cup {<<e>> \o [i \in 1..(n - 1) |-> nil] : e \in StoreErrs}

NextRegistrar ==
    \/ \E hn \in HostNames, ip \in IPs, r1, r2 \in StoreResults :
           Register(hn, ip, r1, r2)
    \/ \E hn \in HostNames, ip \in IPs, r1, r2 \in StoreResults :
           Unregister(hn, ip, r1, r2)

NextLifecycle ==
    \/ \E sa \in ServerAddresses, r \in ResultSeqs(4) :
           NewDNSServer(sa, r[1], r[2], r[3], r[4])
    \/ \E h \in Callable : Start(h)
    \/ \E h \in Callable, r \in ResultSeqs(2) : Stop(h, r[1], r[2])

NextUntil ==
    \/ \E g \in 1..Len(runners) : untilSelect(g)
    \/ \E g \in 1..Len(runners), e \in RunResults : untilFn(g, e)
    \/ \E g \in 1..Len(runners) : untilSleep(g)

Next == NextLifecycle

\* the lifecycle calls of the daemon: NewDNSServer, Start, Stop.  No call
\* reads a goroutine's position or os.Stderr and no step of until writes the
\* store, a handle or a channel, so the goroutines' steps are left to
\* SpecUntil; here each goroutine launched stays where it was launched.
Spec == Init /\ [][Next]_vars

\* the registrar calls of collaborators: addRecord, rmRecord
SpecRegistrar == Init /\ [][NextRegistrar]_vars

\* calls of the path encoder, invertDomain
NextEncoder == \E name \in Names : Encode(name)

SpecEncoder == Init /\ [][NextEncoder]_vars

\* one handle, made by NewDNSServer, and NCallers goroutines calling Start
\* and Stop on it
NextConcurrent ==
    \/ \E sa \in ServerAddresses, r \in ResultSeqs(4) :
           Len(handles) = 0 /\ NewDNSServer(sa, r[1], r[2], r[3], r[4])
    \/ \E c \in 1..NCallers : StartCheck(c)
    \/ \E c \in 1..NCallers : StartMake(c)
    \/ \E c \in 1..NCallers : StartGo(c)
    \/ \E c \in 1..NCallers, r \in ResultSeqs(2) : StopTeardown(c, r[1], r[2])
    \/ \E c \in 1..NCallers : StopClose(c)

SpecConcurrent == Init /\ [][NextConcurrent]_vars

\* the store results the goroutines' specification follows: every call
\* succeeds, or the first Set of the bootstrap fails (no step of until reads
\* the store, so the other failures add nothing there)
ServingResults == {[i \in 1..4 |-> nil], [i \in 1..4 |-> IF i = 1 THEN "errA" ELSE nil]}

NextServing ==
    \/ \E sa \in ServerAddresses, r \in ServingResults :
           NewDNSServer(sa, r[1], r[2], r[3], r[4])
    \/ \E h \in Callable : Start(h)
    \/ \E h \in Callable : Stop(h, nil, nil)

\* the lifecycle calls together with the steps of the goroutines they launch
SpecUntil == Init /\ [][NextServing \/ NextUntil]_vars

\* time.Sleep returns and a select with a default case does not block, so a
\* goroutine at either of them takes its step; fn may never return
SpecUntilFair ==
    /\ SpecUntil
    /\ \A g \in 1..MaxHandles :
          /\ WF_vars(g <= Len(runners) /\ untilSelect(g))
          /\ WF_vars(g <= Len(runners) /\ untilSleep(g))

\* ------------------------------------------------------ lifecycle claims
BootFqdn == Fqdn(BootHost)
BootForwardKey == ForwardPath(BootFqdn)

NoStoreErr(trace) == \A i \in 1..Len(trace) : trace[i].err = nil
SetsIn(trace) == {i \in 1..Len(trace) : trace[i].op = "Set"}

\* the goroutines still looping on a done channel nobody has closed
LiveRunners ==
    {g \in 1..Len(runners) :
        runners[g].pc # "returned" /\ chans[runners[g].done] = "open"}

\* C1: a NewDNSServer call made right after a NewDNSServer call that
\* succeeded, every store call succeeding, is a no-op: it issues no store
\* write, allocates no DNSServer, leaves Daemon.DNSServer alone and launches
\* no goroutine.
C1_SecondStartIsNoOp ==
    [][\A sa \in ServerAddresses :
          (/\ last.op = "NewDNSServer"
           /\ last.err = nil
           /\ ResolveUDPAddr(sa) = nil
           /\ NewDNSServer(sa, nil, nil, nil, nil))
          => (/\ SetsIn(last'.trace) = {}
              /\ DNSServer' = DNSServer
              /\ handles' = handles
              /\ runners' = runners)]_vars

\* C2: at most one goroutine loops on a done channel that is not closed.
C2_AtMostOneLive == Cardinality(LiveRunners) <= 1

\* C3: Stop never closes a nil or an already closed done channel, whatever
\* calls came before it.
C3_StopClosesSafely ==
    panic \notin {"close of nil channel", "close of closed channel"}

\* C6: right after a NewDNSServer call that succeeded, the store maps the
\* forward key of corectld.coreos.local to the caller's address and the
\* reverse key of that address to corectld.coreos.local.
C6_BootstrapRecords ==
    (last.op = "NewDNSServer" /\ last.err = nil)
    => (/\ BootForwardKey \in DOMAIN store
        /\ store[BootForwardKey].host = address
        /\ ReversePath(address) \in DOMAIN store
        /\ store[ReversePath(address)].host = BootFqdn)

\* C8: right after a Stop on a handle that was started, no Delete of it
\* having failed, the forward key of corectld.coreos.local is not in the
\* store.
C8_StopRemovesForward ==
    (/\ last.op = "Stop"
     /\ last.h # 0
     /\ handles[last.h].done # 0
     /\ NoStoreErr(last.trace))
    => BootForwardKey \notin DOMAIN store

\* a Stop that closed the done channel of a started handle and whose two
\* Deletes succeeded
C8_Witness ==
    /\ last.op = "Stop"
    /\ last.h # 0
    /\ handles[last.h].done # 0
    /\ Len(last.trace) = 3
    /\ NoStoreErr(last.trace)
    /\ last.trace[1] = Event("Delete", BootForwardKey, nil)
    /\ last.trace[3].op = "close"
    /\ last.after = "NewDNSServer"

NewDNSServerStep ==
    \E sa \in ServerAddresses, r \in ResultSeqs(4) :
        NewDNSServer(sa, r[1], r[2], r[3], r[4])

\* C9: in every NewDNSServer call the goroutine is launched, if at all,
\* after four Sets that all succeeded; when a Set fails the call returns
\* that Set's error and launches nothing.
C9_ServeAfterBootstrap ==
    [][NewDNSServerStep =>
          LET t == last'.trace
              launched == runners' # runners
          IN  /\ launched =>
                    /\ Len(t) = 5
                    /\ \A i \in 1..4 : t[i].op = "Set" /\ t[i].err = nil
                    /\ t[5].op = "go"
              /\ \A i \in 1..Len(t) :
                    (t[i].op = "Set" /\ t[i].err # nil) =>
                        /\ last'.err = t[i].err
                        /\ ~launched
                        /\ \A j \in 1..Len(t) : t[j].op # "go"]_vars

\* a NewDNSServer whose second registration failed at its reverse Set: it
\* returned that error and its handle has no done channel
C9_Witness ==
    /\ last.op = "NewDNSServer"
    /\ Len(last.trace) = 4
    /\ last.trace[4].err \in StoreErrs
    /\ last.err = last.trace[4].err
    /\ handles[last.h].done = 0

\* C10: a Stop on a handle whose done channel is open closes that channel
\* and returns no error, whatever the results of the teardown's Deletes.
C10_StopAlwaysSignals ==
    [][\A h \in 1..Len(handles), r \in ResultSeqs(2) :
          (/\ handles[h].done # 0
           /\ chans[handles[h].done] = "open"
           /\ Stop(h, r[1], r[2]))
          => (/\ chans'[handles[h].done] = "closed"
              /\ last'.err = nil
              /\ panic' = "none")]_vars

\* a Stop whose teardown failed at a Delete and that closed the done channel
C10_Witness ==
    /\ last.op = "Stop"
    /\ last.h # 0
    /\ \E i \in 1..Len(last.trace) :
           last.trace[i].op = "Delete" /\ last.trace[i].err \in StoreErrs
    /\ last.trace[Len(last.trace)].op = "close"
    /\ chans[handles[last.h].done] = "closed"
    /\ panic = "none"

BootAliasKey == ForwardPath(Fqdn(BootAlias))

\* C11: a NewDNSServer call whose serverAddress does not resolve returns the
\* resolver's error and changes nothing else: it makes no store call, leaves
\* the store, Daemon.DNSServer, the handles and the channels as they were and
\* launches no goroutine.
C11_BadAddressChangesNothing ==
    [][\A sa \in ServerAddresses :
          (/\ ResolveUDPAddr(sa) # nil
           /\ \E r \in ResultSeqs(4) : NewDNSServer(sa, r[1], r[2], r[3], r[4]))
          => (/\ last'.err = ResolveUDPAddr(sa)
              /\ last'.trace = << >>
              /\ UNCHANGED <<store, DNSServer, handles, chans, runners>>)]_vars

\* a NewDNSServer that returned the resolver's error while an earlier handle
\* was serving
C11_Witness ==
    /\ last.op = "NewDNSServer"
    /\ last.err = "missing port in address"
    /\ last.trace = << >>
    /\ DNSServer # 0
    /\ handles[DNSServer].done # 0
    /\ chans[handles[DNSServer].done] = "open"

\* C18: a Start on a handle whose done channel Stop has closed makes no
\* channel and launches no goroutine, and the done field of a handle, once
\* set, never changes.
C18_StoppedIsTerminal ==
    [][/\ \A h \in 1..Len(handles) :
             (/\ handles[h].done # 0
              /\ chans[handles[h].done] = "closed"
              /\ Start(h))
             => (/\ chans' = chans
                 /\ runners' = runners
                 /\ handles' = handles
                 /\ panic' = "none")
       /\ \A h \in 1..Len(handles) :
             handles[h].done # 0 => handles'[h].done = handles[h].done]_vars

\* a Start that found the handle's done channel closed and only warned
C18_Witness ==
    /\ last.op = "Start"
    /\ last.h # 0
    /\ handles[last.h].done # 0
    /\ chans[handles[last.h].done] = "closed"
    /\ last.trace = <<Event("warn", <<>>, nil)>>
    /\ stderr = "DNS server already started"

\* C19: right after a Stop that directly follows a NewDNSServer that
\* succeeded, no Delete having failed, the forward key of the alias
\* corectld.ns.dns.coreos.local still maps to the address, while the forward
\* key of corectld.coreos.local and the reverse key of the address are gone.
C19_AliasLeftBehind ==
    (/\ last.op = "Stop"
     /\ last.after = "NewDNSServer"
     /\ NoStoreErr(last.trace))
    => (/\ BootAliasKey \in DOMAIN store
        /\ store[BootAliasKey].host = address
        /\ BootForwardKey \notin DOMAIN store
        /\ ReversePath(address) \notin DOMAIN store)

\* a Stop right after a successful NewDNSServer: both Deletes succeeded, the
\* done channel was closed and the alias is the only bootstrap key left
C19_Witness ==
    /\ last.op = "Stop"
    /\ last.after = "NewDNSServer"
    /\ Len(last.trace) = 3
    /\ NoStoreErr(last.trace)
    /\ last.trace[2] = Event("Delete", ReversePath(address), nil)
    /\ BootAliasKey \in DOMAIN store
    /\ ReversePath(address) \notin DOMAIN store
    /\ panic = "none"

\* C20: a NewDNSServer call that fails at a bootstrap Set rolls nothing
\* back: every key a Set of the call wrote before the failing one holds the
\* value that Set wrote, Daemon.DNSServer is a newly allocated handle
\* whose done is nil, and no channel is made and no goroutine launched.
C20_NoRollback ==
    [][(last'.err \in StoreErrs /\ NewDNSServerStep)
       => LET t == last'.trace
          IN  /\ \A i \in 1..Len(t) :
                    (t[i].op = "Set" /\ t[i].err = nil) =>
                        /\ t[i].key \in DOMAIN store'
                        /\ store'[t[i].key] =
                               RecordValue(IF t[i].key = ReversePath(address)
                                           THEN BootFqdn ELSE address)
              /\ Len(handles') = Len(handles) + 1
              /\ DNSServer' = Len(handles')
              /\ handles'[DNSServer'].done = 0
              /\ chans' = chans
              /\ runners' = runners]_vars

\* a NewDNSServer that failed at its third Set: the two records of the
\* first registration are in the store and the new handle has no done channel
C20_Witness ==
    /\ last.op = "NewDNSServer"
    /\ Len(last.trace) = 3
    /\ last.err \in StoreErrs
    /\ last.trace[3].err = last.err
    /\ BootForwardKey \in DOMAIN store
    /\ store[ReversePath(address)].host = BootFqdn
    /\ DNSServer = last.h
    /\ handles[DNSServer].done = 0

\* ----------------------------------------------------------- until claims
\* the done channel of goroutine g is closed
Closed(g) == chans[runners[g].done] = "closed"

\* the lines until writes to its sink
Reports == {"skydns: Exited with no errors.", "skydns: Exit with error"}

\* C13: once a goroutine's done channel is closed, no step takes the
\* goroutine into a new call of fn, wherever it was when the close came
\* (before its first select, inside fn or asleep); a call of fn in progress is
\* left only by fn returning, and its outcome is then written to the sink.
C13_NoInvocationAfterClose ==
    [][\A g \in 1..Len(runners) :
          Closed(g) =>
              /\ runners[g].pc # "fn" => runners'[g].pc # "fn"
              /\ (runners[g].pc = "fn" /\ runners'[g].pc # "fn") =>
                    /\ runners'[g].pc = "sleep"
                    /\ stderr' \in Reports]_vars

\* Stop closed the channel of the only goroutine while it was inside fn, a
\* later Start printed its diagnostic, and then fn returned: the outcome is
\* on the sink and the goroutine is asleep
C13_Witness ==
    /\ panic = "none"
    /\ Len(runners) = 1
    /\ Closed(1)
    /\ runners[1].pc = "sleep"
    /\ stderr \in Reports
    /\ last.op = "Start"
    /\ last.trace = <<Event("warn", <<>>, nil)>>

\* goroutine g exists and is at pc
At(g, pc) == g <= Len(runners) /\ runners[g].pc = pc

\* goroutine g exists and its done channel is closed
Cancelled(g) == g <= Len(runners) /\ Closed(g)

\* C14: while a goroutine's done channel is not closed, every return of fn
\* (the goroutine is asleep after it) is eventually followed by a new call of
\* fn, unless the channel is closed first.
C14_AlwaysReinvoked ==
    \A g \in 1..MaxHandles :
        (At(g, "sleep") /\ ~Cancelled(g)) ~> (At(g, "fn") \/ Cancelled(g))

\* C15: once a goroutine's done channel is closed and the goroutine is not
\* inside fn (fn has returned, or was not running), its loop eventually ends;
\* and a goroutine inside fn goes nowhere but to the report after fn, so
\* while fn does not return the loop neither selects again nor returns.
C15_TerminatesAfterClose ==
    /\ \A g \in 1..MaxHandles :
          (Cancelled(g) /\ ~At(g, "fn")) ~> (At(g, "returned") \/ panic # "none")
    /\ [][\A g \in 1..Len(runners) :
             runners[g].pc = "fn" => runners'[g].pc \in {"fn", "sleep"}]_vars

\* a goroutine whose fn returned after the close has seen the closed
\* channel at its next select and returned
C15_Witness ==
    \E g \in 1..Len(runners) :
        /\ panic = "none"
        /\ Closed(g)
        /\ runners[g].pc = "returned"
        /\ stderr \in Reports

\* ----------------------------------------------------- concurrency claims
\* C12: for any interleaving of Start and Stop calls from several callers on
\* the same handle, at most one goroutine is launched, at most one done
\* channel is made, and no channel is closed twice.
C12_AtomicStartStop ==
    /\ Len(runners) <= 1
    /\ Len(chans) <= 1
    /\ panic # "close of closed channel"

\* ------------------------------------------------------ registrar claims
\* strings.Join(parts, "/")
RECURSIVE JoinSlash(_)
JoinSlash(parts) ==
    IF Len(parts) = 0 THEN << >>
    ELSE IF Len(parts) = 1 THEN parts[1]
    ELSE parts[1] \o <<"/">> \o JoinSlash(Tail(parts))

Reversed(q) == [i \in 1..Len(q) |-> q[Len(q) + 1 - i]]

ArpaPrefix == <<"/", "skydns", "/", "arpa", "/", "in-addr", "/">>

SameAt(key, st1, st2) ==
    /\ (key \in DOMAIN st1) = (key \in DOMAIN st2)
    /\ key \in DOMAIN st1 => st1[key] = st2[key]

\* C4: when the forward Set of addRecord fails, the forward Set is the only
\* store call made, the reverse key keeps its value (or its absence), and
\* the error returned is the forward Set's.
C4_RegisterFailFast ==
    [][(/\ last'.op = "addRecord"
        /\ last'.trace[1].err \in StoreErrs
        /\ \E r2 \in StoreResults :
               Register(last'.hostName, last'.ip, last'.trace[1].err, r2))
       => (/\ last'.trace = <<Event("Set", ForwardPath(Fqdn(last'.hostName)),
                                    last'.trace[1].err)>>
           /\ SameAt(ReversePath(last'.ip), store, store')
           /\ last'.err = last'.trace[1].err)]_vars

\* an addRecord whose forward Set failed while the reverse key of its ip was
\* in the store
C4_Witness ==
    /\ last.op = "addRecord"
    /\ last.err \in StoreErrs
    /\ Len(last.trace) = 1
    /\ last.trace[1].err = last.err
    /\ ReversePath(last.ip) \in DOMAIN store

\* C5: an rmRecord(hostName, ip) that directly follows an
\* addRecord(hostName, ip), no store call failing in either, leaves the
\* store without the keys that addRecord wrote: the forward key of
\* hostName.coreos.local and the reverse key of ip.
C5_RegisterUnregister ==
    [][(/\ last.op = "addRecord"
        /\ last.err = nil
        /\ Unregister(last.hostName, last.ip, nil, nil))
       => (/\ \A i \in 1..Len(last.trace) :
                 last.trace[i].key \notin DOMAIN store'
           /\ ForwardPath(Fqdn(last.hostName)) \notin DOMAIN store'
           /\ ReversePath(last.ip) \notin DOMAIN store')]_vars

\* an rmRecord that succeeded right after an addRecord with the same
\* arguments that succeeded
C5_Witness ==
    /\ last.op = "rmRecord"
    /\ last.after = "addRecord"
    /\ last.err = nil
    /\ Len(last.trace) = 2
    /\ ForwardPath(Fqdn(last.hostName)) \notin DOMAIN store
    /\ ReversePath(last.ip) \notin DOMAIN store

\* C7 as stated: the reverse Set of addRecord is made at the key whose path
\* under /skydns/arpa/in-addr/ is the octets of ip in reversed order.
C7_ReverseKeyReversedOctets ==
    (last.op = "addRecord" /\ Len(last.trace) = 2)
    => last.trace[2].key = ArpaPrefix \o JoinSlash(Reversed(Split(last.ip, ".")))

\* C7 amended: the reverse Set of addRecord is made at the key whose path
\* under /skydns/arpa/in-addr/ is the octets of ip in the order written.
C7_ReverseKeyWrittenOrder ==
    (last.op = "addRecord" /\ Len(last.trace) = 2)
    => (/\ last.trace[2].op = "Set"
        /\ last.trace[2].key = ArpaPrefix \o JoinSlash(Split(last.ip, ".")))

\* addRecord with ip 10.0.2.2 made its reverse Set at
\* /skydns/arpa/in-addr/10/0/2/2
C7_Witness ==
    /\ last.op = "addRecord"
    /\ last.ip = <<"10", ".", "0", ".", "2", ".", "2">>
    /\ Len(last.trace) = 2
    /\ last.trace[2].key = <<"/", "skydns", "/", "arpa", "/", "in-addr", "/",
                             "10", "/", "0", "/", "2", "/", "2">>
    /\ last.trace[2].key \in DOMAIN store

\* C16: when the forward Delete of rmRecord fails, the forward Delete is the
\* only store call made, the reverse key keeps its value (or its absence),
\* and the error returned is the forward Delete's.
C16_UnregisterFailFast ==
    [][(/\ last'.op = "rmRecord"
        /\ last'.trace[1].err \in StoreErrs
        /\ \E r2 \in StoreResults :
               Unregister(last'.hostName, last'.ip, last'.trace[1].err, r2))
       => (/\ last'.trace = <<Event("Delete", ForwardPath(Fqdn(last'.hostName)),
                                    last'.trace[1].err)>>
           /\ SameAt(ReversePath(last'.ip), store, store')
           /\ last'.err = last'.trace[1].err)]_vars

\* an rmRecord whose forward Delete failed while both keys of its record
\* were in the store
C16_Witness ==
    /\ last.op = "rmRecord"
    /\ last.err \in StoreErrs
    /\ Len(last.trace) = 1
    /\ last.trace[1].err = last.err
    /\ ForwardPath(Fqdn(last.hostName)) \in DOMAIN store
    /\ ReversePath(last.ip) \in DOMAIN store

\* -------------------------------------------------------- encoder claims
\* strings.Join(parts, ".")
RECURSIVE JoinDot(_)
JoinDot(parts) ==
    IF Len(parts) = 0 THEN << >>
    ELSE IF Len(parts) = 1 THEN parts[1]
    ELSE parts[1] \o <<".">> \o JoinDot(Tail(parts))

EndsWithSlash(q) == Len(q) >= 1 /\ q[Len(q)] = "/"
HasSlash(q) == \E i \in 1..Len(q) : q[i] = "/"

====
